---------------------------- MODULE Spec2Model ----------------------------
(***************************************************************************)
(* A model of wlctatalc/split_image: the slice planner (build_slices, in   *)
(* split_image.py and its copy in gui_split_image.py), the average-size    *)
(* distributor (sizes_average), the image task runner (process_one_image), *)
(* the command-line batch driver (main) and the interactive surface        *)
(* (SplitGUI.start_task, SplitGUI._run_task, SplitGUI.log, clear_log).     *)
(***************************************************************************)
EXTENDS Integers, Sequences, FiniteSets

(***************************************************************************)
(* Bounds of the model.                                                    *)
(***************************************************************************)
MaxTotal == 5      \* extents range over 0..MaxTotal
MaxSize == 3       \* a requested size ranges over 0..MaxSize
MaxLen == 3        \* a size list has at most MaxLen entries
MaxCount == 3      \* counts range over -MaxCount..MaxCount
MaxOther == 2      \* an image's height ranges over 1..MaxOther
MaxFiles == 2      \* a directory holds at most MaxFiles entries
MaxLog == 1        \* a batch is started only while the log holds fewer lines
MaxWorkers == 2    \* at most MaxWorkers worker threads are alive at once

VARIABLES
    total,              \* build_slices: the extent
    sizes,              \* build_slices: the requested sizes
    append_remainder,   \* policy flag
    clip_excess,        \* policy flag
    ret,                \* what split_image.build_slices returned or raised
    gret,               \* what gui_split_image.build_slices returned or raised
    ppc,                \* position of the planner harness
    req,                \* task runner: the image and the parameters of a call
    avg,                \* what sizes_average returned or raised
    run,                \* what process_one_image returned or raised
    rpc,                \* position of the task-runner harness
    surface,            \* which surface runs the batch: "cli" or "gui"
    env,                \* the directory listing, the input path, the parameters
    cli,                \* main: its position and locals
    out,                \* main: the lines printed
    btn_start,          \* SplitGUI.btn_start: its state
    txt_log,            \* SplitGUI.txt_log: its lines
    workers,            \* the threads running SplitGUI._run_task
    widget_ops,         \* which thread has done which operation on a widget
    messagebox          \* the last message box shown

planVars == <<total, sizes, append_remainder, clip_excess, ret, gret, ppc>>
runnerVars == <<req, avg, run, rpc>>

guiVars == <<btn_start, txt_log, workers, widget_ops, messagebox>>
batchVars == <<surface, env, cli, out, guiVars>>

vars == <<planVars, runnerVars, batchVars>>

(***************************************************************************)
(* Helpers: Python built-ins used by the code.                             *)
(***************************************************************************)

\* sum(sizes)
RECURSIVE sum(_)
sum(s) == IF s = <<>> THEN 0 ELSE Head(s) + sum(Tail(s))

\* [x for x in s if e > s]: keep the ranges that are not empty
RECURSIVE KeepNonEmpty(_)
KeepNonEmpty(s) ==
    IF s = <<>> THEN <<>>
    ELSE IF Head(s)[2] > Head(s)[1]
         THEN <<Head(s)>> \o KeepNonEmpty(Tail(s))
         ELSE KeepNonEmpty(Tail(s))

\* All sequences over S of length at most n
SeqUpTo(S, n) == UNION {[1..k -> S] : k \in 0..n}

\* What a call hands back: a value, or the exception it raised
Returned(sl) == [status |-> "ok", slices |-> sl, sum_sizes |-> 0, total |-> 0]
Raised(exc, s, t) == [status |-> exc, slices |-> <<>>, sum_sizes |-> s, total |-> t]
NotCalled == [status |-> "none", slices |-> <<>>, sum_sizes |-> 0, total |-> 0]

(***************************************************************************)
(* split_image.build_slices                                                *)
(***************************************************************************)

\* The clipping loop: for i, sz in enumerate(sizes) with its two breaks
RECURSIVE ClipLoop(_, _, _, _)
ClipLoop(t, rest, start, acc) ==
    IF rest = <<>> THEN acc
    ELSE LET end0 == start + Head(rest)
             end == IF end0 > t THEN t ELSE end0
         IN IF end <= start THEN acc
            ELSE IF end >= t THEN Append(acc, <<start, end>>)
            ELSE ClipLoop(t, Tail(rest), end, Append(acc, <<start, end>>))

\* The plain loop: for sz in sizes
RECURSIVE PlainLoop(_, _, _)
PlainLoop(rest, start, acc) ==
    IF rest = <<>> THEN acc
    ELSE PlainLoop(Tail(rest), start + Head(rest),
                   Append(acc, <<start, start + Head(rest)>>))

\* Variants of build_slices, each with one plausible slip, used to show that
\* the properties below depend on the code.
\* (a) the final filter of empty ranges is missing
build_slices_nofilter(t, sz, ar, ce) ==
    LET sum_sizes == sum(sz)
        walked == PlainLoop(sz, 0, <<>>)
        withRem == IF sum_sizes < t /\ ar
                   THEN Append(walked, <<sum_sizes, t>>)
                   ELSE walked
    IN IF sum_sizes > t
       THEN IF ~ce THEN Raised("ValueError", sum_sizes, t)
            ELSE Returned(ClipLoop(t, sz, 0, <<>>))
       ELSE Returned(withRem)

\* (b) the remainder is appended whatever append_remainder says
build_slices_always_append(t, sz, ar, ce) ==
    LET sum_sizes == sum(sz)
        walked == PlainLoop(sz, 0, <<>>)
        withRem == IF sum_sizes < t
                   THEN Append(walked, <<sum_sizes, t>>)
                   ELSE walked
    IN IF sum_sizes > t
       THEN IF ~ce THEN Raised("ValueError", sum_sizes, t)
            ELSE Returned(ClipLoop(t, sz, 0, <<>>))
       ELSE Returned(KeepNonEmpty(withRem))

\* (c) the clipping loop forgets to clamp end to the extent
RECURSIVE ClipLoopNoClamp(_, _, _, _)
ClipLoopNoClamp(t, rest, start, acc) ==
    IF rest = <<>> THEN acc
    ELSE LET end == start + Head(rest)
         IN IF end <= start THEN acc
            ELSE IF end >= t THEN Append(acc, <<start, end>>)
            ELSE ClipLoopNoClamp(t, Tail(rest), end, Append(acc, <<start, end>>))

build_slices_noclamp(t, sz, ar, ce) ==
    LET sum_sizes == sum(sz)
        walked == PlainLoop(sz, 0, <<>>)
        withRem == IF sum_sizes < t /\ ar
                   THEN Append(walked, <<sum_sizes, t>>)
                   ELSE walked
    IN IF sum_sizes > t
       THEN IF ~ce THEN Raised("ValueError", sum_sizes, t)
            ELSE Returned(ClipLoopNoClamp(t, sz, 0, <<>>))
       ELSE Returned(KeepNonEmpty(withRem))

\* (d) the overflow test is off by one (>= instead of >)
build_slices_ge(t, sz, ar, ce) ==
    LET sum_sizes == sum(sz)
        walked == PlainLoop(sz, 0, <<>>)
        withRem == IF sum_sizes < t /\ ar
                   THEN Append(walked, <<sum_sizes, t>>)
                   ELSE walked
    IN IF sum_sizes >= t
       THEN IF ~ce THEN Raised("ValueError", sum_sizes, t)
            ELSE Returned(ClipLoop(t, sz, 0, <<>>))
       ELSE Returned(KeepNonEmpty(withRem))

build_slices(t, sz, ar, ce) ==
    LET sum_sizes == sum(sz)
        walked == PlainLoop(sz, 0, <<>>)
        withRem == IF sum_sizes < t /\ ar
                   THEN Append(walked, <<sum_sizes, t>>)
                   ELSE walked
    IN IF sum_sizes > t
       THEN IF ~ce THEN Raised("ValueError", sum_sizes, t)
            ELSE Returned(ClipLoop(t, sz, 0, <<>>))
       ELSE Returned(KeepNonEmpty(withRem))

(***************************************************************************)
(* gui_split_image.build_slices (a copy of the logic, kept apart)          *)
(***************************************************************************)

RECURSIVE GuiClipLoop(_, _, _, _)
GuiClipLoop(t, rest, start, acc) ==
    IF rest = <<>> THEN acc
    ELSE LET end0 == start + Head(rest)
             end == IF end0 > t THEN t ELSE end0
         IN IF end <= start THEN acc
            ELSE IF end >= t THEN Append(acc, <<start, end>>)
            ELSE GuiClipLoop(t, Tail(rest), end, Append(acc, <<start, end>>))

RECURSIVE GuiPlainLoop(_, _, _)
GuiPlainLoop(rest, start, acc) ==
    IF rest = <<>> THEN acc
    ELSE GuiPlainLoop(Tail(rest), start + Head(rest),
                      Append(acc, <<start, start + Head(rest)>>))

gui_build_slices(t, sz, ar, ce) ==
    LET sum_sizes == sum(sz)
        walked == GuiPlainLoop(sz, 0, <<>>)
        withRem == IF sum_sizes < t /\ ar
                   THEN Append(walked, <<sum_sizes, t>>)
                   ELSE walked
    IN IF sum_sizes > t
       THEN IF ~ce THEN Raised("ValueError", sum_sizes, t)
            ELSE Returned(GuiClipLoop(t, sz, 0, <<>>))
       ELSE Returned(KeepNonEmpty(withRem))


(***************************************************************************)
(* split_image.sizes_average                                               *)
(***************************************************************************)

\* Python's // and % (floor division; the remainder has the divisor's sign)
RECURSIVE PyFloorDiv(_, _)
PyFloorDiv(a, b) ==
    IF b < 0 THEN PyFloorDiv(-a, -b)
    ELSE IF a >= 0 THEN a \div b
    ELSE -((-a + b - 1) \div b)

PyMod(a, b) == a - b * PyFloorDiv(a, b)

\* range(count) is empty for count <= 0
RangeLen(n) == IF n > 0 THEN n ELSE 0

AvgReturned(sz) == [status |-> "ok", sizes |-> sz]
AvgRaised(exc) == [status |-> exc, sizes |-> <<>>]
AvgNotCalled == [status |-> "none", sizes |-> <<>>]

\* a slip: i <= rem instead of i < rem
sizes_average_le(t, cnt) ==
    IF cnt = 0 THEN AvgRaised("ZeroDivisionError")
    ELSE LET base == PyFloorDiv(t, cnt)
             rem == PyMod(t, cnt)
         IN AvgReturned([k \in 1..RangeLen(cnt) |->
                            base + (IF k - 1 <= rem THEN 1 ELSE 0)])

sizes_average(t, cnt) ==
    IF cnt = 0 THEN AvgRaised("ZeroDivisionError")
    ELSE LET base == PyFloorDiv(t, cnt)
             rem == PyMod(t, cnt)
         IN AvgReturned([k \in 1..RangeLen(cnt) |->
                            base + (IF k - 1 < rem THEN 1 ELSE 0)])

(***************************************************************************)
(* split_image.process_one_image and its copy in gui_split_image           *)
(***************************************************************************)

\* imread_unicode: None, or a pixel buffer with its shape
Undecodable == [ok |-> FALSE, w |-> 0, h |-> 0]
Images == {Undecodable} \cup
          {[ok |-> TRUE, w |-> w, h |-> h] : w \in 1..MaxTotal, h \in 1..MaxOther}

RunReturned(n, calls) ==
    [status |-> "ok", reason |-> "", num |-> n, avg_calls |-> calls]
RunRaised(exc, why, calls) ==
    [status |-> exc, reason |-> why, num |-> 0, avg_calls |-> calls]
RunNotCalled == [status |-> "none", reason |-> "", num |-> 0, avg_calls |-> <<>>]

\* The part of process_one_image after the sizes are resolved: plan, crop and
\* write. wr tells whether imwrite_unicode succeeds.
SplitAndWrite(plan, calls, wr) ==
    IF plan.status # "ok" THEN RunRaised(plan.status, "overflow", calls)
    ELSE IF plan.slices # <<>> /\ ~wr THEN RunRaised("RuntimeError", "write", calls)
    ELSE RunReturned(Len(plan.slices), calls)

\* a slip: the count guard is missing
process_one_image_noguard(img, orientation, mode, cnt, px, ar, ce, wr) ==
    LET ext == IF orientation = "vertical" THEN img.w ELSE img.h
        a == sizes_average(ext, cnt)
        calls == << <<ext, cnt>> >>
    IN IF ~img.ok THEN RunRaised("RuntimeError", "read", <<>>)
       ELSE IF mode = "average"
            THEN IF a.status # "ok" THEN RunRaised(a.status, "average", calls)
                 ELSE SplitAndWrite(build_slices(ext, a.sizes, ar, ce), calls, wr)
            ELSE IF px = <<>> THEN RunRaised("ValueError", "pixels", <<>>)
                 ELSE SplitAndWrite(build_slices(ext, px, ar, ce), <<>>, wr)

process_one_image(img, orientation, mode, cnt, px, ar, ce, wr) ==
    LET ext == IF orientation = "vertical" THEN img.w ELSE img.h
        a == sizes_average(ext, cnt)
        calls == << <<ext, cnt>> >>
    IN IF ~img.ok THEN RunRaised("RuntimeError", "read", <<>>)
       ELSE IF mode = "average"
            THEN IF cnt <= 0 THEN RunRaised("ValueError", "count", <<>>)
                 ELSE IF a.status # "ok" THEN RunRaised(a.status, "average", calls)
                 ELSE SplitAndWrite(build_slices(ext, a.sizes, ar, ce), calls, wr)
            ELSE IF px = <<>> THEN RunRaised("ValueError", "pixels", <<>>)
                 ELSE SplitAndWrite(build_slices(ext, px, ar, ce), <<>>, wr)

gui_process_one_image(img, orientation, mode, cnt, px, ar, ce, wr) ==
    LET ext == IF orientation = "vertical" THEN img.w ELSE img.h
        a == sizes_average(ext, cnt)
        calls == << <<ext, cnt>> >>
    IN IF ~img.ok THEN RunRaised("RuntimeError", "read", <<>>)
       ELSE IF mode = "average"
            THEN IF cnt <= 0 THEN RunRaised("ValueError", "count", <<>>)
                 ELSE IF a.status # "ok" THEN RunRaised(a.status, "average", calls)
                 ELSE SplitAndWrite(gui_build_slices(ext, a.sizes, ar, ce), calls, wr)
            ELSE IF px = <<>> THEN RunRaised("ValueError", "pixels", <<>>)
                 ELSE SplitAndWrite(gui_build_slices(ext, px, ar, ce), <<>>, wr)

(***************************************************************************)
(* The batch drivers' environment: a directory listing and the parameters. *)
(***************************************************************************)

\* A file is named by a number (names sort as numbers do); its kind gives its
\* extension and what imread_unicode makes of it.
Kinds == {"txt", "bad", "good"}
Ext(kind) == IF kind = "txt" THEN ".txt" ELSE IF kind = "bad" THEN ".jpg" ELSE ".PNG"

\* str.lower() on an extension
lower(e) == IF e = ".PNG" THEN ".png" ELSE IF e = ".JPG" THEN ".jpg" ELSE e

is_image_file(e) == lower(e) \in {".jpg", ".jpeg", ".png", ".bmp", ".webp", ".tiff"}

imread_unicode(kind) ==
    IF kind = "good" THEN [ok |-> TRUE, w |-> MaxTotal, h |-> 1] ELSE Undecodable

\* os.listdir: the names of the entries, in no order
listdir(listing) == DOMAIN listing

\* sorted(...)
RECURSIVE sorted(_)
sorted(S) ==
    IF S = {} THEN <<>>
    ELSE LET m == CHOOSE x \in S : \A y \in S : x <= y
         IN <<m>> \o sorted(S \ {m})

\* The parameters a batch is run with
Params(o, m, c, px, ar, ce) ==
    [orientation |-> o, mode |-> m, count |-> c, pixels |-> px,
     append_remainder |-> ar, clip_excess |-> ce]
BatchParams ==
    {Params("vertical", "average", 2, <<>>, TRUE, FALSE),
     Params("vertical", "average", 0, <<>>, TRUE, FALSE),
     Params("horizontal", "pixels", 2, <<MaxSize, MaxSize>>, TRUE, FALSE)}

Envs ==
    {[listing |-> l, input |-> i, params |-> p] :
        l \in SeqUpTo(Kinds, MaxFiles), i \in {"dir", "file"}, p \in BatchParams}

\* A line of output
OkLine(p, n) ==
    [kind |-> "OK", name |-> p, num |-> n, of |-> 0, states_total |-> FALSE, why |-> ""]
FailLine(p, why) ==
    [kind |-> "FAIL", name |-> p, num |-> 0, of |-> 0, states_total |-> FALSE, why |-> why]
CliSummaryLine(n) ==
    [kind |-> "SUMMARY", name |-> 0, num |-> n, of |-> 0, states_total |-> FALSE, why |-> ""]
GuiSummaryLine(n, t) ==
    [kind |-> "SUMMARY", name |-> 0, num |-> n, of |-> t, states_total |-> TRUE, why |-> ""]
NotFoundLine ==
    [kind |-> "NOTFOUND", name |-> 0, num |-> 0, of |-> 0, states_total |-> FALSE, why |-> ""]
ErrorLine ==
    [kind |-> "ERROR", name |-> 0, num |-> 0, of |-> 0, states_total |-> FALSE, why |-> "traceback"]

(***************************************************************************)
(* split_image.main                                                        *)
(***************************************************************************)

\* main, lines 171-180: the tasks of a directory or of a single file
main_tasks(e) ==
    IF e.input = "dir"
    THEN SelectSeq(sorted(listdir(e.listing)),
                   LAMBDA n : is_image_file(Ext(e.listing[n])))
    ELSE <<1>>

CliStart == [pc |-> "start", tasks |-> <<>>, i |-> 0, total_images |-> 0, invoked |-> <<>>]

\* main up to the loop: the tasks are listed and the output directory made;
\* a single file that is no image, or a directory that cannot be made, raises
MainSetup ==
    /\ surface = "cli"
    /\ cli.pc = "start"
    /\ \E dir_ok \in BOOLEAN :
          IF env.input = "file" /\ ~is_image_file(Ext(env.listing[1]))
          THEN cli' = [cli EXCEPT !.pc = "raised"]
          ELSE IF ~dir_ok
          THEN cli' = [cli EXCEPT !.pc = "raised", !.tasks = main_tasks(env)]
          ELSE cli' = [cli EXCEPT !.pc = "loop", !.tasks = main_tasks(env),
                                  !.total_images = 0]
    /\ UNCHANGED <<surface, env, out, guiVars, planVars, runnerVars>>

\* a slip: the first failure ends the loop
MainStep_abort ==
    /\ surface = "cli"
    /\ cli.pc = "loop"
    /\ cli.i < Len(cli.tasks)
    /\ \E wr \in BOOLEAN :
          LET p == cli.tasks[cli.i + 1]
              r == process_one_image(imread_unicode(env.listing[p]),
                       env.params.orientation, env.params.mode, env.params.count,
                       env.params.pixels, env.params.append_remainder,
                       env.params.clip_excess, wr)
          IN IF r.status = "ok"
             THEN /\ cli' = [cli EXCEPT !.i = @ + 1, !.invoked = Append(@, p),
                                        !.total_images = @ + 1]
                  /\ out' = Append(out, OkLine(p, r.num))
             ELSE /\ cli' = [cli EXCEPT !.i = Len(cli.tasks), !.invoked = Append(@, p)]
                  /\ out' = Append(out, FailLine(p, r.reason))
    /\ UNCHANGED <<surface, env, guiVars, planVars, runnerVars>>

\* a slip: a failed image is counted too
MainStep_countall ==
    /\ surface = "cli"
    /\ cli.pc = "loop"
    /\ cli.i < Len(cli.tasks)
    /\ \E wr \in BOOLEAN :
          LET p == cli.tasks[cli.i + 1]
              r == process_one_image(imread_unicode(env.listing[p]),
                       env.params.orientation, env.params.mode, env.params.count,
                       env.params.pixels, env.params.append_remainder,
                       env.params.clip_excess, wr)
          IN /\ cli' = [cli EXCEPT !.i = @ + 1, !.invoked = Append(@, p),
                                   !.total_images = @ + 1]
             /\ out' = Append(out, IF r.status = "ok" THEN OkLine(p, r.num)
                                   ELSE FailLine(p, r.reason))
    /\ UNCHANGED <<surface, env, guiVars, planVars, runnerVars>>

\* one turn of the loop of main: process_one_image on the next task, then
\* its [OK] line, or the [FAIL] line of the exception caught
MainStep ==
    /\ surface = "cli"
    /\ cli.pc = "loop"
    /\ cli.i < Len(cli.tasks)
    /\ \E wr \in BOOLEAN :
          LET p == cli.tasks[cli.i + 1]
              r == process_one_image(imread_unicode(env.listing[p]),
                       env.params.orientation, env.params.mode, env.params.count,
                       env.params.pixels, env.params.append_remainder,
                       env.params.clip_excess, wr)
          IN IF r.status = "ok"
             THEN /\ cli' = [cli EXCEPT !.i = @ + 1, !.invoked = Append(@, p),
                                        !.total_images = @ + 1]
                  /\ out' = Append(out, OkLine(p, r.num))
             ELSE /\ cli' = [cli EXCEPT !.i = @ + 1, !.invoked = Append(@, p)]
                  /\ out' = Append(out, FailLine(p, r.reason))
    /\ UNCHANGED <<surface, env, guiVars, planVars, runnerVars>>

\* the last print of main
MainSummary ==
    /\ surface = "cli"
    /\ cli.pc = "loop"
    /\ cli.i = Len(cli.tasks)
    /\ out' = Append(out, CliSummaryLine(cli.total_images))
    /\ cli' = [cli EXCEPT !.pc = "done"]
    /\ UNCHANGED <<surface, env, guiVars, planVars, runnerVars>>

(***************************************************************************)
(* gui_split_image: list_image_tasks and SplitGUI                          *)
(***************************************************************************)

list_image_tasks(e) ==
    IF e.input = "dir"
    THEN SelectSeq(sorted(listdir(e.listing)),
                   LAMBDA n : is_image_file(Ext(e.listing[n])))
    ELSE IF is_image_file(Ext(e.listing[1])) THEN <<1>> ELSE <<>>

\* A worker thread running SplitGUI._run_task
NewWorker ==
    [pc |-> "setup", tasks |-> <<>>, i |-> 0, ok |-> 0,
     emitted |-> <<>>, invoked |-> <<>>, path |-> "running"]

WidgetOp(widget, op, thread) == [widget |-> widget, op |-> op, thread |-> thread]

RemoveAt(s, k) == SubSeq(s, 1, k - 1) \o SubSeq(s, k + 1, Len(s))

\* start_task returning early: a modal message box is shown and nothing else
\* is done
StartTaskRejected ==
    /\ surface = "gui"
    /\ btn_start = "normal"
    /\ messagebox = "none"
    /\ \E why \in {"no_input", "missing_path", "no_output", "bad_pixels"} :
          /\ why = "bad_pixels" => env.params.mode = "pixels"
          /\ messagebox' = IF why \in {"no_input", "no_output"}
                           THEN "showwarning" ELSE "showerror"
    /\ UNCHANGED <<surface, env, cli, out, btn_start, txt_log, workers, widget_ops,
                   planVars, runnerVars>>

\* the user closes the message box and start_task returns
DismissMessage ==
    /\ surface = "gui"
    /\ messagebox # "none"
    /\ messagebox' = "none"
    /\ UNCHANGED <<surface, env, cli, out, btn_start, txt_log, workers, widget_ops,
                   planVars, runnerVars>>

\* a slip: the start control is not disabled
StartTask_nodisable ==
    /\ surface = "gui"
    /\ btn_start = "normal"
    /\ messagebox = "none"
    /\ Len(txt_log) < MaxLog
    /\ Len(workers) < MaxWorkers
    /\ workers' = Append(workers, NewWorker)
    /\ UNCHANGED <<surface, env, cli, out, btn_start, txt_log, messagebox, widget_ops,
                   planVars, runnerVars>>

\* start_task with a valid form: the control is disabled and the worker started
StartTask ==
    /\ surface = "gui"
    /\ btn_start = "normal"
    /\ messagebox = "none"
    /\ Len(txt_log) < MaxLog
    /\ Len(workers) < MaxWorkers
    /\ btn_start' = "disabled"
    /\ widget_ops' = widget_ops \cup {WidgetOp("btn_start", "configure", "ui")}
    /\ workers' = Append(workers, NewWorker)
    /\ UNCHANGED <<surface, env, cli, out, txt_log, messagebox, planVars, runnerVars>>

\* clear_log, on the UI thread
ClearLog ==
    /\ surface = "gui"
    /\ messagebox = "none"
    /\ txt_log # <<>>
    /\ txt_log' = <<>>
    /\ widget_ops' = widget_ops \cup {WidgetOp("txt_log", "delete", "ui")}
    /\ UNCHANGED <<surface, env, cli, out, btn_start, workers, messagebox,
                   planVars, runnerVars>>

\* SplitGUI.log called by worker k: the line is inserted into the text widget
\* by the calling thread
Log(k, line, w) ==
    /\ txt_log' = Append(txt_log, line)
    /\ widget_ops' = widget_ops \cup {WidgetOp("txt_log", "insert", "worker")}
    /\ workers' = [workers EXCEPT ![k] = [w EXCEPT !.emitted = Append(@, line)]]

\* _run_task up to the loop: ensure_dir and list_image_tasks; no task found
\* is logged and the worker returns
WorkerSetup(k) ==
    /\ workers[k].pc = "setup"
    /\ \E dir_ok \in BOOLEAN :
          IF ~dir_ok
          THEN /\ workers' = [workers EXCEPT ![k].pc = "except"]
               /\ UNCHANGED <<txt_log, widget_ops>>
          ELSE LET tasks == list_image_tasks(env)
               IN IF tasks = <<>>
                  THEN Log(k, NotFoundLine,
                           [workers[k] EXCEPT !.pc = "finally", !.path = "empty"])
                  ELSE /\ workers' = [workers EXCEPT ![k].pc = "loop",
                                                     ![k].tasks = tasks,
                                                     ![k].ok = 0]
                       /\ UNCHANGED <<txt_log, widget_ops>>
    /\ UNCHANGED <<surface, env, cli, out, btn_start, messagebox, planVars, runnerVars>>

\* one turn of the loop of _run_task
WorkerStep(k) ==
    /\ workers[k].pc = "loop"
    /\ workers[k].i < Len(workers[k].tasks)
    /\ \E wr \in BOOLEAN :
          LET w == workers[k]
              p == w.tasks[w.i + 1]
              r == gui_process_one_image(imread_unicode(env.listing[p]),
                       env.params.orientation, env.params.mode, env.params.count,
                       env.params.pixels, env.params.append_remainder,
                       env.params.clip_excess, wr)
          IN IF r.status = "ok"
             THEN Log(k, OkLine(p, r.num),
                      [w EXCEPT !.i = @ + 1, !.invoked = Append(@, p), !.ok = @ + 1])
             ELSE Log(k, FailLine(p, r.reason),
                      [w EXCEPT !.i = @ + 1, !.invoked = Append(@, p)])
    /\ UNCHANGED <<surface, env, cli, out, btn_start, messagebox, planVars, runnerVars>>

\* the summary line of _run_task
WorkerSummary(k) ==
    /\ workers[k].pc = "loop"
    /\ workers[k].i = Len(workers[k].tasks)
    /\ Log(k, GuiSummaryLine(workers[k].ok, Len(workers[k].tasks)),
           [workers[k] EXCEPT !.pc = "finally", !.path = "complete"])
    /\ UNCHANGED <<surface, env, cli, out, btn_start, messagebox, planVars, runnerVars>>

\* the outer except of _run_task
WorkerExcept(k) ==
    /\ workers[k].pc = "except"
    /\ Log(k, ErrorLine, [workers[k] EXCEPT !.pc = "finally", !.path = "error"])
    /\ UNCHANGED <<surface, env, cli, out, btn_start, messagebox, planVars, runnerVars>>

\* the finally of _run_task: the worker re-enables the control and ends
WorkerFinally(k) ==
    /\ workers[k].pc = "finally"
    /\ btn_start' = "normal"
    /\ widget_ops' = widget_ops \cup {WidgetOp("btn_start", "configure", "worker")}
    /\ workers' = RemoveAt(workers, k)
    /\ UNCHANGED <<surface, env, cli, out, txt_log, messagebox, planVars, runnerVars>>

\* a step of some worker thread
RunTask ==
    \E k \in 1..Len(workers) :
        \/ WorkerSetup(k)
        \/ WorkerStep(k)
        \/ WorkerSummary(k)
        \/ WorkerExcept(k)
        \/ WorkerFinally(k)

(***************************************************************************)
(* The values of the variables a specification does not use.               *)
(***************************************************************************)

Request(e, img, o, m, c, px, ar, ce) ==
    [extent |-> e, img |-> img, orientation |-> o, mode |-> m, count |-> c,
     pixels |-> px, append_remainder |-> ar, clip_excess |-> ce]
NoRequest == Request(0, Undecodable, "vertical", "average", 2, <<>>, TRUE, FALSE)

PlanIdle ==
    /\ total = 0 /\ sizes = <<>> /\ append_remainder = TRUE /\ clip_excess = FALSE
    /\ ret = NotCalled /\ gret = NotCalled /\ ppc = "off"

RunnerIdle ==
    /\ req = NoRequest /\ avg = AvgNotCalled /\ run = RunNotCalled /\ rpc = "off"

BatchIdle ==
    /\ surface = "off"
    /\ env = [listing |-> <<>>, input |-> "dir",
              params |-> Params("vertical", "average", 2, <<>>, TRUE, FALSE)]
    /\ cli = CliStart /\ out = <<>>
    /\ btn_start = "normal" /\ txt_log = <<>> /\ workers = <<>>
    /\ widget_ops = {} /\ messagebox = "none"

(***************************************************************************)
(* The planner harness: inputs are drawn, then each planner is applied.    *)
(***************************************************************************)

PlanInit ==
    /\ total \in 0..MaxTotal
    /\ sizes \in SeqUpTo(0..MaxSize, MaxLen)
    /\ append_remainder \in BOOLEAN
    /\ clip_excess \in BOOLEAN
    /\ ret = NotCalled
    /\ gret = NotCalled
    /\ ppc = "ready"
    /\ RunnerIdle
    /\ BatchIdle

CallBuildSlices ==
    /\ ppc = "ready"
    /\ ret' = build_slices(total, sizes, append_remainder, clip_excess)
    /\ ppc' = "cli_done"
    /\ UNCHANGED <<total, sizes, append_remainder, clip_excess, gret, runnerVars, batchVars>>

CallGuiBuildSlices ==
    /\ ppc = "cli_done"
    /\ gret' = gui_build_slices(total, sizes, append_remainder, clip_excess)
    /\ ppc' = "done"
    /\ UNCHANGED <<total, sizes, append_remainder, clip_excess, ret, runnerVars, batchVars>>

PlanNext == CallBuildSlices \/ CallGuiBuildSlices

SpecPlan == PlanInit /\ [][PlanNext]_vars

(***************************************************************************)
(* The task-runner harness: either sizes_average is applied to a drawn     *)
(* (extent, count), or process_one_image to a drawn image and parameters.  *)
(***************************************************************************)

RunnerInit ==
    /\ PlanIdle
    /\ BatchIdle
    /\ avg = AvgNotCalled
    /\ run = RunNotCalled
    /\ \/ /\ rpc = "call"
          /\ \E e \in 0..MaxTotal, c \in (-MaxCount)..MaxCount :
                req = Request(e, Undecodable, "vertical", "average", c, <<>>, TRUE, FALSE)
       \/ /\ rpc = "run"
          /\ \E img \in Images, o \in {"vertical", "horizontal"},
                ar \in BOOLEAN, ce \in BOOLEAN :
                \/ \E c \in (-MaxCount)..MaxCount :
                      req = Request(0, img, o, "average", c, <<>>, ar, ce)
                \/ \E px \in SeqUpTo(1..MaxSize, MaxLen) :
                      req = Request(0, img, o, "pixels", 2, px, ar, ce)

CallSizesAverage ==
    /\ rpc = "call"
    /\ avg' = sizes_average(req.extent, req.count)
    /\ rpc' = "called"
    /\ UNCHANGED <<req, run, planVars, batchVars>>

CallProcessOneImage ==
    /\ rpc = "run"
    /\ \E wr \in BOOLEAN :
          run' = process_one_image(req.img, req.orientation, req.mode, req.count,
                     req.pixels, req.append_remainder, req.clip_excess, wr)
    /\ rpc' = "ran"
    /\ UNCHANGED <<req, avg, planVars, batchVars>>

CallGuiProcessOneImage ==
    /\ rpc = "run"
    /\ \E wr \in BOOLEAN :
          run' = gui_process_one_image(req.img, req.orientation, req.mode, req.count,
                     req.pixels, req.append_remainder, req.clip_excess, wr)
    /\ rpc' = "gui_ran"
    /\ UNCHANGED <<req, avg, planVars, batchVars>>

RunnerNext == CallSizesAverage \/ CallProcessOneImage \/ CallGuiProcessOneImage

SpecRunner == RunnerInit /\ [][RunnerNext]_vars

(***************************************************************************)
(* The batch drivers: a run of main, or a session of the form.             *)
(***************************************************************************)

BatchInit ==
    /\ PlanIdle
    /\ RunnerIdle
    /\ surface \in {"cli", "gui"}
    /\ env \in {e \in Envs : e.input = "file" => e.listing # <<>>}
    /\ cli = CliStart
    /\ out = <<>>
    /\ btn_start = "normal"
    /\ txt_log = <<>>
    /\ workers = <<>>
    /\ widget_ops = {}
    /\ messagebox = "none"

Next ==
    \/ MainSetup
    \/ MainStep
    \/ MainSummary
    \/ StartTaskRejected
    \/ DismissMessage
    \/ StartTask
    \/ ClearLog
    \/ RunTask

Spec == BatchInit /\ [][Next]_vars

\* The worker thread, once started, keeps being scheduled
FairSpec == Spec /\ WF_vars(RunTask)

(***************************************************************************)
(* Properties of the slice planner.                                        *)
(***************************************************************************)

\* s1 + .. + sk
Prefix(s, k) == sum(SubSeq(s, 1, k))
Min(a, b) == IF a < b THEN a ELSE b
AllPositive(s) == \A i \in 1..Len(s) : s[i] > 0
CliPlanned == ppc \in {"cli_done", "done"}
GuiPlanned == ppc = "done"

\* A plan is well formed for extent t
WellFormed(p, t) ==
    /\ \A i \in 1..Len(p) : 0 <= p[i][1] /\ p[i][1] < p[i][2] /\ p[i][2] <= t
    /\ Len(p) > 0 => p[1][1] = 0
    /\ \A i \in 2..Len(p) : p[i][1] = p[i-1][2]

\* C1: whenever build_slices (either copy) returns a plan, for sizes >= 0 and
\* any flags, every range satisfies 0 <= start < end <= T, the first range
\* starts at 0 and each range starts where the previous one ends.
C1_PlanWellFormed ==
    /\ (CliPlanned /\ ret.status = "ok") => WellFormed(ret.slices, total)
    /\ (GuiPlanned /\ gret.status = "ok") => WellFormed(gret.slices, total)

\* C1 witness: a plan of two ranges returned by both copies for a size list
\* that holds a zero.
C1_Witness ==
    /\ GuiPlanned /\ ret.status = "ok" /\ gret.status = "ok"
    /\ \E i \in 1..Len(sizes) : sizes[i] = 0
    /\ Len(ret.slices) >= 2 /\ Len(gret.slices) >= 2

\* The plan the no-overflow case describes
NoOverflowPlan ==
    [i \in 1..Len(sizes) |-> <<Prefix(sizes, i-1), Prefix(sizes, i)>>]
    \o (IF sum(sizes) < total /\ append_remainder
        THEN << <<sum(sizes), total>> >> ELSE <<>>)

\* C2: for a non-empty list of positive sizes with sum <= T, build_slices
\* returns the n prefix-sum ranges followed by (sum, T) iff sum < T and
\* append_remainder; the last end is T with append_remainder and sum
\* without it, and no error is raised.
C2_NoOverflowPlan ==
    (CliPlanned /\ sizes # <<>> /\ AllPositive(sizes) /\ sum(sizes) <= total) =>
        /\ ret = Returned(NoOverflowPlan)
        /\ ret.slices[Len(ret.slices)][2] =
               (IF append_remainder THEN total ELSE sum(sizes))
        /\ ret.slices[1][1] = 0

\* C2 witness: a remainder was appended after two requested ranges.
C2_Witness ==
    /\ CliPlanned /\ Len(sizes) = 2 /\ AllPositive(sizes)
    /\ sum(sizes) < total /\ append_remainder
    /\ Len(ret.slices) = 3 /\ ret.slices[3] = <<sum(sizes), total>>

\* The indices the clipping case keeps: those whose preceding prefix sum is
\* strictly less than T
KeptIndices == {i \in 1..Len(sizes) : Prefix(sizes, i-1) < total}
ClippedPlan ==
    [i \in 1..Cardinality(KeptIndices) |->
        <<Prefix(sizes, i-1), Min(Prefix(sizes, i), total)>>]

\* C3: for positive sizes with sum > T and clip_excess, build_slices returns
\* the range (prefix(i-1), min(prefix(i), T)) for exactly the indices whose
\* preceding prefix sum is < T, drops every later size, ends at T when not
\* empty, and returns the same plan for either value of append_remainder.
C3_ClippedPlan ==
    (CliPlanned /\ AllPositive(sizes) /\ sum(sizes) > total /\ clip_excess) =>
        /\ KeptIndices = 1..Cardinality(KeptIndices)
        /\ ret = Returned(ClippedPlan)
        /\ \A i \in 1..Len(ret.slices) : ret.slices[i][2] > ret.slices[i][1]
        /\ ret.slices # <<>> => ret.slices[Len(ret.slices)][2] = total
        /\ ret = build_slices(total, sizes, ~append_remainder, clip_excess)

\* C3 witness: the second range was clamped and the third size dropped.
C3_Witness ==
    /\ CliPlanned /\ Len(sizes) = 3 /\ AllPositive(sizes)
    /\ sum(sizes) > total /\ clip_excess
    /\ Len(ret.slices) = 2
    /\ ret.slices[2][2] = total /\ Prefix(sizes, 2) > total

\* C4: build_slices (either copy) raises an error reporting sum and T, and
\* returns no plan, exactly when sum > T and clip_excess is false; in every
\* other case it returns a plan.
C4_OverflowError ==
    LET overflow == sum(sizes) > total /\ ~clip_excess
        expected == Raised("ValueError", sum(sizes), total)
    IN /\ CliPlanned => IF overflow THEN ret = expected ELSE ret.status = "ok"
       /\ GuiPlanned => IF overflow THEN gret = expected ELSE gret.status = "ok"

\* C4 witness: both copies raised on an overflow without clipping.
C4_Witness ==
    /\ GuiPlanned /\ ret.status = "ValueError" /\ gret.status = "ValueError"
    /\ ret.slices = <<>> /\ ret.sum_sizes > ret.total

(***************************************************************************)
(* Properties of the distributor and of the count guard.                   *)
(***************************************************************************)

\* C5: for T >= 0 and N > 0, sizes_average(T, N) has length N, sums to T, and
\* its entries are T div N + 1 in the first T mod N positions and T div N in
\* the others.
C5_AverageSizes ==
    (rpc = "called" /\ req.extent >= 0 /\ req.count > 0) =>
        LET T == req.extent
            N == req.count
            base == T \div N
        IN /\ avg.status = "ok"
           /\ Len(avg.sizes) = N
           /\ sum(avg.sizes) = T
           /\ \A i \in 1..N : avg.sizes[i] \in {base, base + 1}
           /\ Cardinality({i \in 1..N : avg.sizes[i] = base + 1}) = T % N
           /\ \A i \in 1..N : avg.sizes[i] = base + 1 <=> i <= T % N

\* C5 witness: an uneven split, the extra pixels put first.
C5_Witness ==
    /\ rpc = "called" /\ req.extent = 5 /\ req.count = 3
    /\ avg = AvgReturned(<<2, 2, 1>>)

\* C6 (as stated): sizes_average fails with a ValidationError for every
\* count N <= 0 and never returns a size list then.
C6_Original ==
    (rpc = "called" /\ req.count <= 0) => avg.status = "ValueError"

\* C6 (amended): the guard is in the task runner. For an image that decodes,
\* process_one_image (either copy) in average mode with count <= 0 raises
\* ValueError without calling sizes_average, and it never calls
\* sizes_average with a count <= 0; sizes_average itself raises
\* ZeroDivisionError for N = 0 and returns the empty list for N < 0.
C6_CountGuard ==
    /\ (rpc \in {"ran", "gui_ran"} /\ req.img.ok /\ req.mode = "average"
            /\ req.count <= 0) =>
           /\ run.status = "ValueError" /\ run.reason = "count"
           /\ run.avg_calls = <<>>
    /\ rpc \in {"ran", "gui_ran"} =>
           \A i \in 1..Len(run.avg_calls) : run.avg_calls[i][2] > 0
    /\ (rpc = "called" /\ req.count = 0) => avg = AvgRaised("ZeroDivisionError")
    /\ (rpc = "called" /\ req.count < 0) => avg = AvgReturned(<<>>)

\* C6 witness: the task runner rejected a non-positive count for an image
\* that decoded.
C6_Witness ==
    /\ rpc = "ran" /\ req.img.ok /\ req.mode = "average" /\ req.count < 0
    /\ run.status = "ValueError" /\ run.avg_calls = <<>>

(***************************************************************************)
(* Properties of the batch drivers.                                        *)
(***************************************************************************)

\* The targets of the input: the entries whose extension is an image's, or the
\* single file when it is an image
TargetSet ==
    IF env.input = "dir"
    THEN {n \in DOMAIN env.listing : env.listing[n] \in {"bad", "good"}}
    ELSE {n \in {1} : env.listing[n] \in {"bad", "good"}}

\* seq lists the targets once each, in increasing order of name
ListsTargets(seq) ==
    /\ Len(seq) = Cardinality(TargetSet)
    /\ {seq[i] : i \in 1..Len(seq)} = TargetSet
    /\ \A i \in 1..Len(seq) : \A j \in 1..Len(seq) : i < j => seq[i] < seq[j]

IsStatus(line) == line.kind \in {"OK", "FAIL"}
StatusNames(lines) ==
    LET st == SelectSeq(lines, IsStatus) IN [i \in 1..Len(st) |-> st[i].name]
CountKind(lines, kind) == Cardinality({i \in 1..Len(lines) : lines[i].kind = kind})

\* The run of one driver: every target so far was handed to the task runner
\* once, in order, and has one status line
RunInOrder(tasks, i, invoked, lines) ==
    /\ ListsTargets(tasks)
    /\ invoked = SubSeq(tasks, 1, i)
    /\ StatusNames(lines) = invoked

\* C7: in a batch run the task runner is invoked once per target in
\* name-sorted order, with one [OK] or [FAIL] line per target in that order,
\* and a failure on one target does not keep the later ones from being
\* processed: a run that reaches its summary has processed them all.
C7_EveryTargetOnce ==
    /\ cli.pc \in {"loop", "done"} =>
           /\ RunInOrder(cli.tasks, cli.i, cli.invoked, out)
           /\ cli.pc = "done" => cli.invoked = cli.tasks
    /\ \A k \in 1..Len(workers) :
           (workers[k].pc = "loop" \/ workers[k].path \in {"complete", "empty"}) =>
               /\ RunInOrder(workers[k].tasks, workers[k].i, workers[k].invoked,
                             workers[k].emitted)
               /\ workers[k].path \in {"complete", "empty"} =>
                      workers[k].invoked = workers[k].tasks

\* C7 witness: main has finished two targets, the first failed and the second
\* succeeded.
C7_Witness ==
    /\ cli.pc = "done" /\ cli.invoked = <<1, 2>>
    /\ Len(out) = 3 /\ out[1].kind = "FAIL" /\ out[2].kind = "OK"

\* lines ends with its only summary, which counts the [OK] lines
EndsWithSummary(lines) ==
    /\ lines # <<>>
    /\ CountKind(lines, "SUMMARY") = 1
    /\ lines[Len(lines)].kind = "SUMMARY"
    /\ \A i \in 1..(Len(lines) - 1) : IsStatus(lines[i])
    /\ lines[Len(lines)].num = CountKind(lines, "OK")

\* ... and states the total, the number of targets
StatesTotal(lines) ==
    /\ lines[Len(lines)].states_total
    /\ lines[Len(lines)].of = Cardinality(TargetSet)

C9_StartControl ==
    /\ [](Len(workers) <= 1)
    /\ [](workers # <<>> <=> btn_start = "disabled")
    /\ [](messagebox # "none" => (btn_start = "normal" /\ workers = <<>>))
    /\ [][StartTaskRejected => (btn_start' = "normal" /\ workers' = workers)]_vars
    /\ [][(workers # <<>> /\ workers' = <<>>) => btn_start' = "normal"]_vars
    /\ (btn_start = "disabled") ~> (btn_start = "normal")

\* C9 witness: a worker that met an error during setup is about to leave
\* through its finally clause, the control still disabled.
C9_Witness ==
    /\ Len(workers) = 1 /\ workers[1].pc = "finally" /\ workers[1].path = "error"
    /\ btn_start = "disabled"

\* C10 (as stated): every operation on a widget is done by the UI thread; the
\* worker only passes messages.
C10_Original == \A op \in widget_ops : op.thread = "ui"

=============================================================================
